---- MODULE Spec2Model ----
(***************************************************************************)
(* Retry/scheduler of barbican: barbican/queue/retry_scheduler.py.         *)
(*                                                                         *)
(* PeriodicServer registers _check_retry_tasks on a dynamic timer.  Each   *)
(* check cycle fetches the due retry records and hands each of them to     *)
(* _enqueue_task, which casts the stored RPC task on the worker queue,     *)
(* deletes the record, and commits, with rollback on any exception and     *)
(* clear in all cases.                                                     *)
(*                                                                         *)
(* The repository layer (barbican.model.repositories) and the looping      *)
(* call that drives the timer (barbican.openstack.common) are not part of  *)
(* the sources at hand; their operators follow the interfaces that the     *)
(* specification gives for RetryTaskStore and for the dynamic timer.       *)
(*                                                                         *)
(* Every call that can block or raise is one step, so that a stop request  *)
(* or another scheduler instance can interleave between them.              *)
(***************************************************************************)
EXTENDS Integers, Sequences, FiniteSets, TLC

\* ------------------------------------------------------------------ bounds
NumRecords == 2          \* retry records created by the upstream logic
MaxTime == 1             \* the clock runs over 0..MaxTime
MaxCycles == 2           \* check cycles one scheduler instance may start
MaxInterval == 5         \* configured base intervals run over 1..MaxInterval

\* ------------------------------------------------------- program constants
InitialDelaySeconds == 10          \* retry_scheduler.initial_delay_seconds
PeriodicIntervalMaxSeconds == 10   \* retry_scheduler.periodic_interval_max_seconds

\* The timing scenario: initial_delay_seconds = 0.1, in tenths of a second;
\* periodic_interval_max_seconds = 1.0, in seconds; a run of 2.5 seconds, in
\* tenths of a second.
ScenarioInitialDelay == 1
ScenarioInterval == 1
ScenarioWindow == 25

RecordIds == 1..NumRecords
Times == 0..MaxTime
Schedulers == {"s1", "s2"}

PENDING_RETRY == "PENDING_RETRY"
ACTIVE == "ACTIVE"

\* Names of the remote operations the queue client exposes, and a name it
\* does not (getattr raises AttributeError on it).
QueueMethods == {"process_type_order"}
TaskNames == QueueMethods \cup {"no_such_task"}

NoTask == [id |-> 0]
NoMessage == <<>>
EmptySession == [dirty |-> {}, deleted |-> {}]

\* The steps of the startup, in the order of the launcher (lines 55-68 of
\* barbican-worker-retry-scheduler.py) and of __init__ (lines 69-87).
StartupSteps == <<"config", "engine", "queue", "timer", "repository">>

\* Positions of the timer loop: asleep, and over.
Waiting == {"initial_delay", "sleep"}
Ended == {"exited", "crashed"}

\* The failures a dispatch can meet inside its try block.
TryFailures == {"resolve", "invoke", "delete", "commit"}

VARIABLES
    store,      \* committed retry records: id -> record
    created,    \* ids of the records the upstream logic created
    limit,      \* page size of the store's queries (configuration)
    interval,   \* periodic_interval_max_seconds as configured, in seconds
    running,    \* per instance: the running flag of the timer's loop
    wait,       \* per instance: what the timer sleeps before the next call
    suppressed, \* per instance: this cycle's fetch met a storage error
    life,       \* per instance: "new", "constructed", "started", or the
                \* step of the startup that raised
    horizon,    \* length of the observed window of timer time, in tenths
    elapsed,    \* per instance: timer time since arming, up to horizon
    now,        \* the clock (utcnow)
    live,       \* the scheduler instances of this run
    stopreq,    \* per instance: "none", or where the loop was when stop() came
    active,     \* per instance: calls of _check_retry_tasks in progress
    pc,         \* per instance: position of the timer loop
    cycles,     \* per instance: check cycles started
    entities,   \* per instance: the records this cycle iterates over
    total,      \* per instance: total reported by the fetch
    idx,        \* per instance: position in entities
    task,       \* per instance: the entity being dispatched (in memory)
    session,    \* per instance: uncommitted work of the session
    caught,     \* per instance: failure caught by this dispatch's except
    gone,       \* per instance: this dispatch's delete found no record
    order_retry_repo, \* per instance: self.order_retry_repo is assigned
    raising,    \* per instance: exception leaving _enqueue_task
    calls,      \* per instance: calls made by the current dispatch
    sent,       \* per instance: message cast by the current dispatch
    logged,     \* per instance: diagnostic entries of the current dispatch
    attempted,  \* per instance: ids dispatched so far in this cycle
    failed,     \* per instance: ids whose dispatch failed in this cycle
    removed,    \* per instance: ids whose removal this cycle committed
    delay,      \* per instance: value returned by the last cycle
    invoked     \* per record id: successful remote invocations

vars == <<store, created, order_retry_repo, life, horizon, elapsed, gone,
          limit, interval, running, wait, suppressed, now, live, stopreq,
          active, pc, cycles, entities, total,
          idx, task, session, caught, raising, calls, sent, logged,
          attempted, failed, removed, delay, invoked>>

\* ----------------------------------------------------------------- helpers
Range(s) == {s[k] : k \in 1..Len(s)}

SeqIds(s) == {s[k].id : k \in 1..Len(s)}

Min(a, b) == IF a <= b THEN a ELSE b

\* Injective sequences over the set S.
Orders(S) ==
    {s \in [1..Cardinality(S) -> S] : \A a, b \in 1..Cardinality(S) :
                                           a # b => s[a] # s[b]}

Prefix(s, n) == SubSeq(s, 1, Min(n, Len(s)))

NewRecord(r, t, name) ==
    [id |-> r, created_at |-> t, retry_task |-> name,
     retry_args |-> <<r>>, retry_kwargs |-> [order |-> r],
     status |-> PENDING_RETRY]

\* ------------------------------------------------------- interval policy
\* Delays and waits are counted in tenths of a second, so that 0.8 and 1.2
\* times a whole number of seconds are whole numbers.
\* A policy that draws from [0.8 * interval, 1.4 * interval].
ComputeNextPeriodicIntervalWide(B) ==
    {d \in (8 * B)..(14 * B) : (d - 8 * B) % (2 * B) = 0}

\* A policy that draws from [0.6 * interval, 1.2 * interval].
ComputeNextPeriodicIntervalSooner(B) ==
    {d \in (6 * B)..(12 * B) : (d - 6 * B) % (2 * B) = 0}

\* random.uniform(0.8 * interval, 1.2 * interval): the values of that
\* interval on a grid of a fifth of the interval (its ends and its middle).
ComputeNextPeriodicInterval(B) ==
    {d \in (8 * B)..(12 * B) : (d - 8 * B) % (2 * B) = 0}

\* ---------------------------------------------------------- dynamic timer
\* A timer that sleeps whatever the callback returned.
TimerWaitUncapped(idle, max) == idle

\* add_dynamic_timer(callback, initial_delay, periodic_interval_max): the
\* looping call sleeps what the callback returned, and no longer than
\* periodic_interval_max seconds.
TimerWait(idle, max) == Min(idle, 10 * max)

\* The first call comes initial_delay (here in tenths of a second) after the
\* timer was added.
TimerInitialWait(initial_delay, max) == initial_delay

\* A timer whose thread may run as soon as the timer was added.
TimerMayRunAtOnce(l) == TRUE

\* The launcher runs under eventlet (eventlet.monkey_patch(), line 27 of
\* barbican-worker-retry-scheduler.py): the timer's greenthread runs only
\* when the greenthread that added it yields, which __init__ does not do
\* between adding the timer and its return.  l is the instance's life.
TimerMayRun(l) == l \in {"constructed", "started"}

\* --------------------------------------------------- the store (repository)
\* Ids of the records with created_at <= t.
DueIds(st, t) == {r \in DOMAIN st : st[r].created_at <= t}

\* get_by_create_date: the due records, oldest first (ties in any order),
\* cut to one page, and the total number of due records.  With
\* suppress_exception a storage error gives no records and total 0.
GetByCreateDate(st, t, lim) ==
    {[entities |-> Prefix([k \in 1..Len(o) |-> st[o[k]]], lim),
      total |-> Cardinality(DueIds(st, t))] :
        o \in {s \in Orders(DueIds(st, t)) :
                 \A a, b \in 1..Len(s) :
                    a < b => st[s[a]].created_at <= st[s[b]].created_at}}

FetchSuppressed == [entities |-> <<>>, total |-> 0]

\* delete_entity_by_id: marks the record deleted in the session.
DeleteEntityById(sess, id) == [sess EXCEPT !.deleted = @ \cup {id}]

\* commit: the session's work reaches the store.
CommitStore(st, sess) ==
    [r \in (DOMAIN st) \ sess.deleted |->
        IF r \in sess.dirty THEN [st[r] EXCEPT !.status = ACTIVE] ELSE st[r]]

\* rollback and clear both drop the uncommitted work.
Rollback(sess) == EmptySession

Clear(sess) == EmptySession

\* ------------------------------------------------- PeriodicServer, the code
\* A getattr with a default: every name resolves to something callable.
ResolvableAny(name) == TRUE

\* getattr(self.queue, retry_task_name) finds a method of the queue client.
Resolvable(name) == name \in QueueMethods

\* The message retry_method(*retry_args, **retry_kwargs) casts for an entity.
MessageOf(t) == <<t.retry_task, t.retry_args, t.retry_kwargs>>

\* A try block that goes on after a remote call that raised.
TryNextInvokeUnchecked(step, ok) ==
    IF ~ok /\ step # "invoke" THEN "except"
    ELSE CASE step = "invoke" -> "delete"
           [] step = "delete" -> "commit"
           [] step = "commit" -> "finally"

\* A try block in which a name the queue client does not know resolves to
\* an operation that does nothing.
TryNextSwallowsResolve(step, ok) ==
    IF step = "resolve" THEN "delete"
    ELSE IF ~ok THEN "except"
    ELSE CASE step = "invoke" -> "delete"
           [] step = "delete" -> "commit"
           [] step = "commit" -> "finally"

\* A try block that commits ahead of the delete.
TryNextCommitBeforeDelete(step, ok) ==
    IF ~ok THEN "except"
    ELSE CASE step = "invoke" -> "commit"
           [] step = "commit" -> "delete"
           [] step = "delete" -> "finally"

\* A try block that commits without the delete.
TryNextSkipsDelete(step, ok) ==
    IF ~ok THEN "except"
    ELSE CASE step = "invoke" -> "commit"
           [] step = "delete" -> "commit"
           [] step = "commit" -> "finally"

\* The try block of _enqueue_task: a step that returns is followed by the
\* next statement, a step that raises by the except clause.
TryNext(step, ok) ==
    IF ~ok THEN "except"
    ELSE CASE step = "invoke" -> "delete"
           [] step = "delete" -> "commit"
           [] step = "commit" -> "finally"

\* A delete that is written through to the store at once.
DeleteCallAutocommit(st, sess, t) ==
    [store |-> [r \in (DOMAIN st) \ {t.id} |-> st[r]],
     session |-> [sess EXCEPT !.dirty = @ \cup {t.id}]]

\* A delete by the task's name instead of the record's id.
DeleteCallByTaskName(st, sess, t) ==
    [store |-> st,
     session |-> [dirty |-> sess.dirty \cup {t.id},
                  deleted |-> sess.deleted \cup
                     {r \in DOMAIN st : st[r].retry_task = t.retry_task}]]

\* An except clause that commits instead of rolling back.
ExceptClauseCommits(st, sess) ==
    [store |-> CommitStore(st, sess), session |-> EmptySession]

\* The store calls of _enqueue_task.  Each takes the committed store and the
\* session to the committed store and the session after the call returned.
\* task.status = ACTIVE; delete_entity_by_id(task.id, None)
DeleteCall(st, sess, t) ==
    [store |-> st,
     session |-> DeleteEntityById([sess EXCEPT !.dirty = @ \cup {t.id}], t.id)]

\* repositories.commit()
CommitCall(st, sess) ==
    [store |-> CommitStore(st, sess), session |-> EmptySession]

\* repositories.rollback(), in the except clause
ExceptClause(st, sess) == [store |-> st, session |-> Rollback(sess)]

\* repositories.clear(), in the finally clause
FinallyClause(st, sess) == [store |-> st, session |-> Clear(sess)]

\* A dispatcher that also pushes the record's due time back.
MarkActiveRescheduled(t) ==
    [t EXCEPT !.status = ACTIVE, !.created_at = @ + 1]

\* The entity after task.status = models.States.ACTIVE.
MarkActive(t) == [t EXCEPT !.status = ACTIVE]

\* An except clause that logs once the rollback has returned.
LogExceptionAfterRollback(log, t, ok) ==
    IF ok THEN Append(log, MessageOf(t)) ELSE log

\* LOG.exception(...) of lines 151-159, ahead of the rollback of line 161:
\* the entry is written whether the rollback returns (ok) or raises.
LogException(log, t, ok) == Append(log, MessageOf(t))

\* A dispatch without a finally clause: a rollback that raises leaves it
\* at once.
AfterExceptSkipsFinally(ok) == IF ok THEN "finally" ELSE "crashed"

\* try/except/finally, lines 132-163: the finally clause follows the except
\* clause whether the rollback returned (ok) or raised.
AfterExcept(ok) == "finally"

\* A fetch that asks for the records up to a date ahead of the clock.
FetchDateAhead(t) == t + 1

\* only_at_or_before_this_date=datetime.datetime.utcnow() (line 108).
FetchDate(t) == t

\* A fetch that does not ask the store to suppress storage errors.
SuppressExceptionOff == FALSE

\* suppress_exception=True (line 109).
SuppressException == TRUE

\* Where the cycle is after the fetch: in the for loop, or left by the
\* storage error that was not suppressed.
AfterFetch(err, suppress) == IF err /\ ~suppress THEN "crashed" ELSE "loop"

\* A for loop that runs over the fetched entities from the last to the first.
IterListReversed(res) ==
    IF res.total > 0
    THEN [k \in 1..Len(res.entities) |->
             res.entities[Len(res.entities) + 1 - k]]
    ELSE <<>>

\* `if total > 0: for task in entities` (lines 112-113): the entities in
\* the order of the fetch.
IterList(res) == IF res.total > 0 THEN res.entities ELSE <<>>

\* A loop that is left after its first turn.
LoopTargetFirstOnly(list, k) ==
    IF k <= Len(list) /\ k <= 1 THEN "invoke" ELSE "next_delay"

\* The for loop of _check_retry_tasks: the k-th entity is dispatched, or
\* the loop is over and the next delay is computed.
LoopTarget(list, k) == IF k <= Len(list) THEN "invoke" ELSE "next_delay"

\* Where control goes when _enqueue_task is left: back to the for loop, or,
\* with an exception in flight, out of the cycle and of the looping call.
AfterDispatch(rs) == IF rs # "none" THEN "crashed" ELSE "loop"

\* The dispatch-local state at the start of the dispatch of list[k].
BeginDispatch(i, list, k) ==
    /\ task' = [task EXCEPT ![i] = IF k <= Len(list) THEN list[k] ELSE NoTask]
    /\ caught' = [caught EXCEPT ![i] = "none"]
    /\ gone' = [gone EXCEPT ![i] = FALSE]
    /\ raising' = [raising EXCEPT ![i] = "none"]
    /\ calls' = [calls EXCEPT ![i] = <<>>]
    /\ sent' = [sent EXCEPT ![i] = NoMessage]
    /\ logged' = [logged EXCEPT ![i] = <<>>]

\* -------------------------------------------------------------- initial
\* The records the upstream logic left in the store: ids in the order of
\* creation, any due time, a task name the queue client knows or not.
InitStores ==
    {st \in [RecordIds -> {NewRecord(r, t, n) :
                              r \in RecordIds, t \in Times, n \in TaskNames}] :
        /\ \A r \in RecordIds : st[r].id = r
        /\ \A r, q \in RecordIds : r < q => st[r].created_at <= st[q].created_at}

InitCommon ==
    /\ store \in InitStores
    /\ created = DOMAIN store
    /\ limit \in 1..NumRecords
    /\ now = 0
    /\ life = [i \in Schedulers |-> "started"]
    /\ horizon = 0
    /\ elapsed = [i \in Schedulers |-> 0]
    /\ stopreq = [i \in Schedulers |-> "none"]
    /\ running = [i \in Schedulers |-> TRUE]
    /\ wait = [i \in Schedulers |->
                  TimerInitialWait(10 * InitialDelaySeconds, interval)]
    /\ suppressed = [i \in Schedulers |-> FALSE]
    /\ active = [i \in Schedulers |-> 0]
    /\ pc = [i \in Schedulers |-> "initial_delay"]
    /\ cycles = [i \in Schedulers |-> 0]
    /\ entities = [i \in Schedulers |-> <<>>]
    /\ total = [i \in Schedulers |-> 0]
    /\ idx = [i \in Schedulers |-> 0]
    /\ task = [i \in Schedulers |-> NoTask]
    /\ session = [i \in Schedulers |-> EmptySession]
    /\ caught = [i \in Schedulers |-> "none"]
    /\ gone = [i \in Schedulers |-> FALSE]
    /\ order_retry_repo = [i \in Schedulers |-> TRUE]
    /\ raising = [i \in Schedulers |-> "none"]
    /\ calls = [i \in Schedulers |-> <<>>]
    /\ sent = [i \in Schedulers |-> NoMessage]
    /\ logged = [i \in Schedulers |-> <<>>]
    /\ attempted = [i \in Schedulers |-> <<>>]
    /\ failed = [i \in Schedulers |-> {}]
    /\ removed = [i \in Schedulers |-> {}]
    /\ delay = [i \in Schedulers |-> 0]
    /\ invoked = [r \in RecordIds |-> 0]

\* One scheduler instance, constructed: __init__ has armed the timer.
Init ==
    /\ interval = PeriodicIntervalMaxSeconds
    /\ InitCommon
    /\ live = {"s1"}

\* ---------------------------------------------------------------- actions
\* Time passes.  The clock is read by the fetch only (utcnow, line 108), so
\* the time that passed since the last reading is taken there.
Tick ==
    /\ now < MaxTime
    /\ \E i \in live : pc[i] = "fetch"
    /\ now' = now + 1
    /\ UNCHANGED <<order_retry_repo, store, created, life, horizon, elapsed,
                   gone, limit, interval, running, wait,
                   suppressed, live, stopreq, active, pc, cycles, entities,
                   total, idx, task, session, caught, raising, calls, sent,
                   logged, attempted, failed, removed, delay, invoked>>

\* A stop() that does not reach the service's stop: the request is noted
\* and the timer keeps running.
StopNotForwarded(i, graceful) ==
    /\ life[i] \in {"constructed", "started"}
    /\ stopreq[i] = "none"
    /\ graceful \in BOOLEAN
    /\ stopreq' = [stopreq EXCEPT ![i] =
          CASE pc[i] \in Waiting -> "waiting"
            [] pc[i] \in Ended -> "ended"
            [] OTHER -> "in_cycle"]
    /\ UNCHANGED <<order_retry_repo, store, created, life, horizon, elapsed,
                   gone, limit, interval, running, wait,
                   suppressed, now, live, active, pc, cycles,
                   entities, total, idx, task, session, caught, raising,
                   calls, sent, logged, attempted, failed, removed, delay,
                   invoked>>

\* PeriodicServer.stop(graceful): super().stop(graceful=graceful) clears
\* the timer's running flag, in the same way for either value of graceful.
Stop(i, graceful) ==
    /\ life[i] \in {"constructed", "started"}
    /\ stopreq[i] = "none"
    /\ graceful \in BOOLEAN
    /\ stopreq' = [stopreq EXCEPT ![i] =
          CASE pc[i] \in Waiting -> "waiting"
            [] pc[i] \in Ended -> "ended"
            [] OTHER -> "in_cycle"]
    /\ running' = [running EXCEPT ![i] = FALSE]
    /\ UNCHANGED <<order_retry_repo, store, created, life, horizon, elapsed,
                   gone, limit, interval, wait,
                   suppressed, now, live, active, pc, cycles,
                   entities, total, idx, task, session, caught, raising,
                   calls, sent, logged, attempted, failed, removed, delay,
                   invoked>>

\* The looping call wakes and, still running, calls _check_retry_tasks.
\* The cycles of one instance are counted up to MaxCycles, and beyond it as
\* long as they start inside the observed window of timer time.
StartCycle(i) ==
    /\ pc[i] \in Waiting
    /\ running[i]
    /\ TimerMayRun(life[i])
    /\ cycles[i] < MaxCycles \/ elapsed[i] + wait[i] < horizon
    /\ pc' = [pc EXCEPT ![i] = "fetch"]
    /\ active' = [active EXCEPT ![i] = @ + 1]
    /\ cycles' = [cycles EXCEPT ![i] = @ + 1]
    /\ elapsed' = [elapsed EXCEPT ![i] = Min(@ + wait[i], horizon)]
    /\ delay' = [delay EXCEPT ![i] = 0]
    /\ wait' = [wait EXCEPT ![i] = 0]
    /\ UNCHANGED <<order_retry_repo, store, created, life, horizon, gone,
                   limit, interval,
                   running, suppressed,
                   now, live, stopreq, entities, total,
                   idx, task, session, caught, raising, calls, sent, logged,
                   attempted, failed, removed, invoked>>

\* The looping call finds the running flag cleared and ends.
ExitLoop(i) ==
    /\ pc[i] \in Waiting
    /\ ~running[i]
    /\ pc' = [pc EXCEPT ![i] = "exited"]
    /\ UNCHANGED <<order_retry_repo, store, created, life, horizon, elapsed,
                   gone, limit, interval, running, wait,
                   suppressed, now, live, stopreq, active, cycles, entities,
                   total, idx, task, session, caught, raising, calls, sent,
                   logged, attempted, failed, removed, delay, invoked>>

\* _check_retry_tasks, lines 104-112: the due records are fetched.  A
\* storage error is suppressed by the store when it was asked to; otherwise
\* it leaves the cycle, and the looping call with it.  Reading
\* self.order_retry_repo (line 107) while it is not assigned raises
\* AttributeError, which leaves the cycle as well.
Fetch(i) ==
    /\ pc[i] = "fetch"
    /\ IF ~order_retry_repo[i]
       THEN /\ pc' = [pc EXCEPT ![i] = "crashed"]
            /\ active' = [active EXCEPT ![i] = @ - 1]
            /\ UNCHANGED <<suppressed, entities, total, idx>>
       ELSE \E err \in BOOLEAN :
            \E res \in (IF err THEN {FetchSuppressed}
                          ELSE GetByCreateDate(store, FetchDate(now), limit)) :
               /\ suppressed' = [suppressed EXCEPT ![i] = err]
               /\ entities' = [entities EXCEPT ![i] = IterList(res)]
               /\ total' = [total EXCEPT ![i] = res.total]
               /\ idx' = [idx EXCEPT ![i] = 1]
               /\ pc' = [pc EXCEPT ![i] = AfterFetch(err, SuppressException)]
               /\ active' = [active EXCEPT ![i] =
                     IF AfterFetch(err, SuppressException) = "crashed"
                     THEN @ - 1 ELSE @]
    /\ UNCHANGED <<order_retry_repo, store, created, life, horizon, elapsed,
                   gone, limit, interval, running, wait,
                   now, live, stopreq, cycles, task, session,
                   caught, raising, calls, sent, logged, attempted, failed,
                   removed, delay, invoked>>

\* _enqueue_task, lines 134-138: the name is resolved and the task is cast.
Invoke(i) ==
    /\ pc[i] = "invoke"
    /\ attempted' = [attempted EXCEPT ![i] = Append(@, task[i].id)]
    /\ IF ~Resolvable(task[i].retry_task)
       THEN /\ caught' = [caught EXCEPT ![i] = "resolve"]
            /\ pc' = [pc EXCEPT ![i] = TryNext("resolve", FALSE)]
            /\ UNCHANGED <<calls, sent, invoked>>
       ELSE \E ok \in BOOLEAN :
            /\ calls' = [calls EXCEPT ![i] = Append(@, <<"invoke", ok>>)]
            /\ sent' = [sent EXCEPT ![i] = MessageOf(task[i])]
            /\ invoked' = IF ok THEN [invoked EXCEPT ![task[i].id] = @ + 1]
                                ELSE invoked
            /\ caught' = [caught EXCEPT ![i] = IF ok THEN "none" ELSE "invoke"]
            /\ pc' = [pc EXCEPT ![i] = TryNext("invoke", ok)]
    /\ UNCHANGED <<order_retry_repo, store, created, life, horizon, elapsed,
                   gone, limit, interval, running, wait,
                   suppressed, now, live, stopreq, active, cycles, entities,
                   total, idx, task, session, raising, logged, failed,
                   removed, delay>>

\* _enqueue_task, lines 141-142: the entity is marked ACTIVE and deleted.
\* The delete raises when the record is gone, and may raise otherwise.
Delete(i) ==
    /\ pc[i] = "delete"
    /\ task' = [task EXCEPT ![i] = MarkActive(@)]
    /\ gone' = [gone EXCEPT ![i] = task[i].id \notin DOMAIN store]
    /\ \E ok \in {b \in BOOLEAN : b => task[i].id \in DOMAIN store} :
          /\ calls' = [calls EXCEPT ![i] = Append(@, <<"delete", ok>>)]
          /\ store' = IF ok THEN DeleteCall(store, session[i], task[i]).store
                            ELSE store
          /\ session' = [session EXCEPT ![i] =
                IF ok THEN DeleteCall(store, @, task[i]).session
                      ELSE [@ EXCEPT !.dirty = @ \cup {task[i].id}]]
          /\ caught' = [caught EXCEPT ![i] = IF ok THEN "none" ELSE "delete"]
          /\ pc' = [pc EXCEPT ![i] = TryNext("delete", ok)]
    /\ UNCHANGED <<order_retry_repo, created, life, horizon, elapsed,
                   limit, interval, running, wait,
                   suppressed, now, live, stopreq, active, cycles,
                   entities, total, idx, raising, sent, logged, attempted,
                   failed, delay, invoked>>
    /\ removed' = [removed EXCEPT ![i] = @ \cup (DOMAIN store \ DOMAIN store')]

\* _enqueue_task, line 144: repositories.commit().
Commit(i) ==
    /\ pc[i] = "commit"
    /\ \E ok \in BOOLEAN :
          /\ calls' = [calls EXCEPT ![i] = Append(@, <<"commit", ok>>)]
          /\ store' = IF ok THEN CommitCall(store, session[i]).store ELSE store
          /\ session' = [session EXCEPT ![i] =
                IF ok THEN CommitCall(store, @).session ELSE @]
          /\ caught' = [caught EXCEPT ![i] = IF ok THEN "none" ELSE "commit"]
          /\ pc' = [pc EXCEPT ![i] = TryNext("commit", ok)]
    /\ removed' = [removed EXCEPT ![i] = @ \cup (DOMAIN store \ DOMAIN store')]
    /\ UNCHANGED <<order_retry_repo, created, life, horizon, elapsed,
                   gone, limit, interval, running, wait,
                   suppressed, now, live, stopreq, active, cycles,
                   entities, total, idx, task, raising, sent, logged,
                   attempted, failed, delay, invoked>>

\* _enqueue_task, lines 150-161: the failure is logged and rolled back.
\* A rollback that raises leaves the except clause with its exception.
Except(i) ==
    /\ pc[i] = "except"
    /\ \E ok \in BOOLEAN :
          /\ logged' = [logged EXCEPT ![i] = LogException(@, task[i], ok)]
          /\ pc' = [pc EXCEPT ![i] = AfterExcept(ok)]
          /\ calls' = [calls EXCEPT ![i] = Append(@, <<"rollback", ok>>)]
          /\ store' = IF ok THEN ExceptClause(store, session[i]).store
                            ELSE store
          /\ session' = [session EXCEPT ![i] =
                IF ok THEN ExceptClause(store, @).session ELSE @]
          /\ raising' = [raising EXCEPT ![i] = IF ok THEN "none" ELSE "rollback"]
    /\ removed' = [removed EXCEPT ![i] = @ \cup (DOMAIN store \ DOMAIN store')]
    /\ UNCHANGED <<order_retry_repo, created, life, horizon, elapsed,
                   gone, limit, interval, running, wait,
                   suppressed, now, live, stopreq, active, cycles,
                   entities, total, idx, task, caught, sent, attempted,
                   failed, delay, invoked>>

\* _enqueue_task, lines 162-163: clear, and the way out of the dispatch.
\* A clear that raises replaces whatever exception was in flight.
Finally(i) ==
    /\ pc[i] = "finally"
    /\ failed' = [failed EXCEPT ![i] =
                     IF caught[i] # "none" THEN @ \cup {task[i].id} ELSE @]
    /\ \E ok \in BOOLEAN :
          /\ calls' = [calls EXCEPT ![i] = Append(@, <<"clear", ok>>)]
          /\ store' = IF ok THEN FinallyClause(store, session[i]).store
                            ELSE store
          /\ session' = [session EXCEPT ![i] =
                IF ok THEN FinallyClause(store, @).session ELSE @]
          /\ raising' = [raising EXCEPT ![i] = IF ok THEN @ ELSE "clear"]
          /\ pc' = [pc EXCEPT ![i] = AfterDispatch(raising'[i])]
          /\ active' = [active EXCEPT ![i] =
                IF AfterDispatch(raising'[i]) = "crashed" THEN @ - 1 ELSE @]
    /\ idx' = [idx EXCEPT ![i] = @ + 1]
    /\ removed' = [removed EXCEPT ![i] = @ \cup (DOMAIN store \ DOMAIN store')]
    /\ UNCHANGED <<order_retry_repo, created, life, horizon, elapsed,
                   gone, limit, interval, running, wait,
                   suppressed, now, live, stopreq, cycles, entities,
                   total, task, caught, sent, logged, attempted, delay,
                   invoked>>

\* The for loop (lines 112-114) hands the next entity to _enqueue_task
\* (lines 129-132), or is over.
NextTask(i) ==
    /\ pc[i] = "loop"
    /\ pc' = [pc EXCEPT ![i] = LoopTarget(entities[i], idx[i])]
    /\ BeginDispatch(i, entities[i], idx[i])
    /\ UNCHANGED <<order_retry_repo, store, created, life, horizon, elapsed,
                   limit, interval, running, wait,
                   suppressed, now, live, stopreq, active, cycles, entities,
                   total, idx, session, attempted, failed, removed, delay,
                   invoked>>

\* _check_retry_tasks, lines 117-126: the next delay is drawn and returned;
\* the cycle's locals go out of scope.
NextDelay(i) ==
    /\ pc[i] = "next_delay"
    /\ \E d \in ComputeNextPeriodicInterval(interval) :
          /\ delay' = [delay EXCEPT ![i] = d]
          /\ wait' = [wait EXCEPT ![i] = TimerWait(d, interval)]
    /\ suppressed' = [suppressed EXCEPT ![i] = FALSE]
    /\ pc' = [pc EXCEPT ![i] = "sleep"]
    /\ active' = [active EXCEPT ![i] = @ - 1]
    /\ entities' = [entities EXCEPT ![i] = <<>>]
    /\ total' = [total EXCEPT ![i] = 0]
    /\ idx' = [idx EXCEPT ![i] = 0]
    /\ attempted' = [attempted EXCEPT ![i] = <<>>]
    /\ failed' = [failed EXCEPT ![i] = {}]
    /\ removed' = [removed EXCEPT ![i] = {}]
    /\ BeginDispatch(i, <<>>, 1)
    /\ UNCHANGED <<order_retry_repo, store, created, life, horizon, elapsed,
                   limit, interval, running, now, live,
                   stopreq, cycles, session, invoked>>

Next ==
    \/ Tick
    \/ \E i \in live, graceful \in BOOLEAN : Stop(i, graceful)
    \/ \E i \in live : StartCycle(i)
    \/ \E i \in live : ExitLoop(i)
    \/ \E i \in live : Fetch(i)
    \/ \E i \in live : NextTask(i)
    \/ \E i \in live : Invoke(i)
    \/ \E i \in live : Delete(i)
    \/ \E i \in live : Commit(i)
    \/ \E i \in live : Except(i)
    \/ \E i \in live : Finally(i)
    \/ \E i \in live : NextDelay(i)

Spec == Init /\ [][Next]_vars

\* Every delete, commit, rollback and clear of the current dispatches has
\* returned.
StoreCallsReturn ==
    \A i \in live : \A k \in 1..Len(calls[i]) :
       calls[i][k][1] \in {"delete", "commit", "rollback", "clear"}
          => calls[i][k][2]

\* The scheduler on a store whose delete, commit, rollback and clear always
\* return; the fetch and the queue client may fail as before.
NextReliable == Next /\ StoreCallsReturn'

SpecReliable == Init /\ [][NextReliable]_vars

\* Two scheduler instances on one store, not coordinated with each other.
\* Both have run their earlier cycles on an empty store and sleep; the
\* records, created since, are all due, name an operation of the queue
\* client, and fit in one page.
InitTwo ==
    /\ interval = PeriodicIntervalMaxSeconds
    /\ live = {"s1", "s2"}
    /\ store \in InitStores
    /\ \A r \in DOMAIN store :
          store[r].created_at = 0 /\ Resolvable(store[r].retry_task)
    /\ created = DOMAIN store
    /\ limit = NumRecords
    /\ now = 0
    /\ life = [i \in Schedulers |-> "started"]
    /\ horizon = 0
    /\ elapsed = [i \in Schedulers |-> 0]
    /\ stopreq = [i \in Schedulers |-> "none"]
    /\ running = [i \in Schedulers |-> TRUE]
    /\ delay \in [Schedulers -> ComputeNextPeriodicInterval(interval)]
    /\ wait = [i \in Schedulers |-> TimerWait(delay[i], interval)]
    /\ suppressed = [i \in Schedulers |-> FALSE]
    /\ active = [i \in Schedulers |-> 0]
    /\ pc = [i \in Schedulers |-> "sleep"]
    /\ cycles = [i \in Schedulers |-> MaxCycles - 1]
    /\ entities = [i \in Schedulers |-> <<>>]
    /\ total = [i \in Schedulers |-> 0]
    /\ idx = [i \in Schedulers |-> 0]
    /\ task = [i \in Schedulers |-> NoTask]
    /\ session = [i \in Schedulers |-> EmptySession]
    /\ caught = [i \in Schedulers |-> "none"]
    /\ gone = [i \in Schedulers |-> FALSE]
    /\ order_retry_repo = [i \in Schedulers |-> TRUE]
    /\ raising = [i \in Schedulers |-> "none"]
    /\ calls = [i \in Schedulers |-> <<>>]
    /\ sent = [i \in Schedulers |-> NoMessage]
    /\ logged = [i \in Schedulers |-> <<>>]
    /\ attempted = [i \in Schedulers |-> <<>>]
    /\ failed = [i \in Schedulers |-> {}]
    /\ removed = [i \in Schedulers |-> {}]
    /\ invoked = [r \in RecordIds |-> 0]

SpecTwo == InitTwo /\ [][Next]_vars

\* ------------------------------------------------------------ the startup
\* A startup error that is swallowed once the timer has been added.
AfterInitFailureKeepsTimer(step) ==
    IF step = "repository" THEN "initial_delay" ELSE "aborted"

\* No statement of __init__ is inside a try, and the launcher catches
\* RuntimeError only to exit: whatever step raises, the process is over,
\* the timer that a later step had added included.
AfterInitFailure(step) == "aborted"

\* initial_delay_seconds as configured, in tenths of a second: the default,
\* and no delay at all.
InitialDelays == {0, 10 * InitialDelaySeconds}

\* An __init__ that leaves the assignment of the handle to start().
AssignsOrderRetryRepoStart(method) == method = "start"

\* self.order_retry_repo is assigned by __init__, as its last statement
\* (line 87); start() (lines 89-91) assigns nothing.
AssignsOrderRetryRepo(method) == method = "__init__"

\* The launcher's startup and __init__ up to line 85: every step returns,
\* or one of them raises.  __init__ adds the dynamic timer (lines 82-85:
\* "Start the task retry periodic scheduler process up"), which is armed
\* from then on, while self.order_retry_repo is not assigned yet.
Construct(i) ==
    /\ life[i] = "new"
    /\ \E out \in {"ok"} \cup (Range(StartupSteps) \ {"repository"}) :
       \E d \in InitialDelays :
          /\ life' = [life EXCEPT ![i] = IF out = "ok" THEN "armed" ELSE out]
          /\ pc' = [pc EXCEPT ![i] =
                IF out = "ok" THEN "initial_delay" ELSE AfterInitFailure(out)]
          /\ wait' = [wait EXCEPT ![i] =
                IF pc'[i] = "initial_delay"
                THEN TimerInitialWait(d, interval)
                ELSE 0]
    /\ UNCHANGED <<order_retry_repo, store, created, horizon, elapsed, gone,
                   limit, interval,
                   running, suppressed, now, live, stopreq, active, cycles,
                   entities, total, idx, task, session, caught, raising,
                   calls, sent, logged, attempted, failed, removed, delay,
                   invoked>>

\* __init__, line 87, after the timer was added: the repository handle is
\* obtained and assigned, and PeriodicServer() returns; or the call raises.
GetRepository(i) ==
    /\ life[i] = "armed"
    /\ \E ok \in BOOLEAN :
          /\ life' = [life EXCEPT ![i] =
                IF ok THEN "constructed" ELSE "repository"]
          /\ order_retry_repo' = [order_retry_repo EXCEPT ![i] =
                IF ok THEN AssignsOrderRetryRepo("__init__") ELSE @]
          /\ pc' = [pc EXCEPT ![i] =
                IF ok THEN @ ELSE AfterInitFailure("repository")]
          /\ wait' = [wait EXCEPT ![i] =
                IF pc'[i] = "initial_delay" THEN @ ELSE 0]
    /\ UNCHANGED <<store, created, horizon, elapsed, gone, limit, interval,
                   running, suppressed, now, live, stopreq, active, cycles,
                   entities, total, idx, task, session, caught, raising,
                   calls, sent, logged, attempted, failed, removed, delay,
                   invoked>>

\* PeriodicServer.start(), lines 89-91: a log entry and the service's start.
Start(i) ==
    /\ life[i] = "constructed"
    /\ life' = [life EXCEPT ![i] = "started"]
    /\ order_retry_repo' = [order_retry_repo EXCEPT ![i] =
          @ \/ AssignsOrderRetryRepo("start")]
    /\ UNCHANGED <<store, created, horizon, elapsed, gone, limit, interval,
                   running, wait, suppressed, now, live, stopreq, active,
                   pc, cycles, entities, total, idx, task, session, caught,
                   raising, calls, sent, logged, attempted, failed, removed,
                   delay, invoked>>

\* One process before its startup; every record is due from the start,
\* names an operation of the queue client, and fits in one page.
InitStartup ==
    /\ interval = PeriodicIntervalMaxSeconds
    /\ live = {"s1"}
    /\ store \in InitStores
    /\ \A r \in DOMAIN store :
          store[r].created_at = 0 /\ Resolvable(store[r].retry_task)
    /\ created = DOMAIN store
    /\ limit = NumRecords
    /\ now = 0
    /\ life = [i \in Schedulers |-> "new"]
    /\ horizon = 0
    /\ elapsed = [i \in Schedulers |-> 0]
    /\ stopreq = [i \in Schedulers |-> "none"]
    /\ running = [i \in Schedulers |-> TRUE]
    /\ delay = [i \in Schedulers |-> 0]
    /\ wait = [i \in Schedulers |-> 0]
    /\ suppressed = [i \in Schedulers |-> FALSE]
    /\ active = [i \in Schedulers |-> 0]
    /\ pc = [i \in Schedulers |-> "unarmed"]
    /\ cycles = [i \in Schedulers |-> 0]
    /\ entities = [i \in Schedulers |-> <<>>]
    /\ total = [i \in Schedulers |-> 0]
    /\ idx = [i \in Schedulers |-> 0]
    /\ task = [i \in Schedulers |-> NoTask]
    /\ session = [i \in Schedulers |-> EmptySession]
    /\ caught = [i \in Schedulers |-> "none"]
    /\ gone = [i \in Schedulers |-> FALSE]
    /\ order_retry_repo = [i \in Schedulers |-> FALSE]
    /\ raising = [i \in Schedulers |-> "none"]
    /\ calls = [i \in Schedulers |-> <<>>]
    /\ sent = [i \in Schedulers |-> NoMessage]
    /\ logged = [i \in Schedulers |-> <<>>]
    /\ attempted = [i \in Schedulers |-> <<>>]
    /\ failed = [i \in Schedulers |-> {}]
    /\ removed = [i \in Schedulers |-> {}]
    /\ invoked = [r \in RecordIds |-> 0]

NextStartup ==
    \/ \E i \in live : Construct(i)
    \/ \E i \in live : GetRepository(i)
    \/ \E i \in live : Start(i)
    \/ Next

SpecStartup == InitStartup /\ [][NextStartup]_vars

\* ------------------------------------------------------ the timing scenario
\* One started instance under the configuration of the timing scenario,
\* whose timer time is observed over the scenario's window.  A check cycle
\* takes no timer time.  Every record is due from the start, names an
\* operation of the queue client, and fits in one page.
InitTiming ==
    /\ interval = ScenarioInterval
    /\ live = {"s1"}
    /\ store \in InitStores
    /\ \A r \in DOMAIN store :
          store[r].created_at = 0 /\ Resolvable(store[r].retry_task)
    /\ created = DOMAIN store
    /\ limit = NumRecords
    /\ now = 0
    /\ life = [i \in Schedulers |-> "started"]
    /\ horizon = ScenarioWindow
    /\ elapsed = [i \in Schedulers |-> 0]
    /\ stopreq = [i \in Schedulers |-> "none"]
    /\ running = [i \in Schedulers |-> TRUE]
    /\ delay = [i \in Schedulers |-> 0]
    /\ wait = [i \in Schedulers |->
                  TimerInitialWait(ScenarioInitialDelay, interval)]
    /\ suppressed = [i \in Schedulers |-> FALSE]
    /\ active = [i \in Schedulers |-> 0]
    /\ pc = [i \in Schedulers |-> "initial_delay"]
    /\ cycles = [i \in Schedulers |-> 0]
    /\ entities = [i \in Schedulers |-> <<>>]
    /\ total = [i \in Schedulers |-> 0]
    /\ idx = [i \in Schedulers |-> 0]
    /\ task = [i \in Schedulers |-> NoTask]
    /\ session = [i \in Schedulers |-> EmptySession]
    /\ caught = [i \in Schedulers |-> "none"]
    /\ gone = [i \in Schedulers |-> FALSE]
    /\ order_retry_repo = [i \in Schedulers |-> TRUE]
    /\ raising = [i \in Schedulers |-> "none"]
    /\ calls = [i \in Schedulers |-> <<>>]
    /\ sent = [i \in Schedulers |-> NoMessage]
    /\ logged = [i \in Schedulers |-> <<>>]
    /\ attempted = [i \in Schedulers |-> <<>>]
    /\ failed = [i \in Schedulers |-> {}]
    /\ removed = [i \in Schedulers |-> {}]
    /\ invoked = [r \in RecordIds |-> 0]

SpecTiming == InitTiming /\ [][Next]_vars

\* One scheduler instance under any configured base interval; every record
\* is due from the start, names an operation of the queue client, and fits
\* in one page.
InitPolicy ==
    /\ interval \in 1..MaxInterval
    /\ InitCommon
    /\ live = {"s1"}
    /\ limit = NumRecords
    /\ \A r \in DOMAIN store :
          store[r].created_at = 0 /\ Resolvable(store[r].retry_task)

SpecPolicy == InitPolicy /\ [][Next]_vars

\* ================================================================ claims
\* The entity of the current dispatch as the fetch returned it.
Fetched(i) == CHOOSE e \in Range(entities[i]) : e.id = task[i].id

Called(i, op, ok) == <<op, ok>> \in Range(calls[i])

\* The dispatch of instance i has met a failure in its try block, and is at
\* or past its except clause.
DispatchFailed(i) ==
    /\ pc[i] \in {"except", "finally", "loop", "crashed"}
    /\ caught[i] \in TryFailures

AllAttempted(i) == SeqIds(entities[i]) \subseteq Range(attempted[i])

\* C1: a record leaves the store only in the commit step of a dispatch of
\* that record, in which the remote operation was invoked with the record's
\* stored name, args and kwargs and returned without error.
C1_RemovedOnlyAfterInvocation ==
    [][\A r \in (DOMAIN store) \ (DOMAIN store') :
          \E i \in live :
             /\ pc[i] = "commit"
             /\ task[i].id = r
             /\ Called(i, "invoke", TRUE)
             /\ sent[i] = MessageOf(store[r])]_vars

\* C1 witness: a dispatch has committed the removal of its record.
C1_Witness ==
    \E i \in live :
       /\ pc[i] = "finally"
       /\ Called(i, "commit", TRUE)
       /\ task[i].id \notin DOMAIN store
       /\ invoked[task[i].id] = 1

\* C2, as stated: after a dispatch failed at any step the record is in the
\* committed store as it was fetched, status PENDING_RETRY, and the entity
\* in memory has status ACTIVE.
C2_Original ==
    \A i \in live :
       DispatchFailed(i) =>
          /\ task[i].id \in DOMAIN store
          /\ store[task[i].id] = Fetched(i)
          /\ store[task[i].id].status = PENDING_RETRY
          /\ task[i].status = ACTIVE

\* C2, amended: after a dispatch failed at any step the record is in the
\* committed store as it was fetched, status PENDING_RETRY; the entity in
\* memory has status ACTIVE exactly when the failing step was the delete or
\* the commit (the status is set after the remote call returned).
C2_FailureKeepsRecord ==
    \A i \in live :
       DispatchFailed(i) =>
          /\ task[i].id \in DOMAIN store
          /\ store[task[i].id] = Fetched(i)
          /\ store[task[i].id].status = PENDING_RETRY
          /\ (task[i].status = ACTIVE <=> caught[i] \in {"delete", "commit"})

\* C2 witness: a dispatch whose commit raised has been rolled back and
\* cleared; the entity in memory is ACTIVE and the record is still stored.
C2_Witness ==
    \E i \in live :
       /\ pc[i] = "loop"
       /\ caught[i] = "commit"
       /\ task[i].status = ACTIVE
       /\ task[i].id \in DOMAIN store

\* C3, as stated: at the end of a check cycle in which some dispatch failed,
\* every record of the fetched list has been attempted.
C3_LaterRecordsAttempted ==
    \A i \in live :
       (pc[i] \in {"next_delay", "crashed"} /\ failed[i] # {})
          => AllAttempted(i)

\* C4, as stated: a check cycle in which a dispatch met a failure of a
\* listed kind does not end by an exception; it goes on to return a delay.
C4_FailureNeverPropagates ==
    \A i \in live : failed[i] # {} => pc[i] # "crashed"

\* C5: the commit of a successful dispatch removes the dispatched record,
\* which was in the store, and leaves every other record as it was.
C5_RemovesExactlyThatRecord ==
    [][\A i \in live :
          (pc[i] = "commit" /\ pc'[i] = "finally") =>
             /\ task[i].id \in DOMAIN store
             /\ store' = [r \in (DOMAIN store) \ {task[i].id} |-> store[r]]]_vars

\* C5 witness: a dispatch has committed the removal of its record while
\* another record is in the store.
C5_Witness ==
    \E i \in live :
       /\ pc[i] = "finally"
       /\ Called(i, "commit", TRUE)
       /\ task[i].id \notin DOMAIN store
       /\ DOMAIN store # {}

\* No dispatch of any instance is under way, and no cycle was ended by an
\* exception.
BetweenDispatches ==
    \A i \in live :
       pc[i] \notin {"invoke", "delete", "commit", "except", "finally", "crashed"}

\* C6, as stated: between dispatches a created record is in the store if and
\* only if its remote operation has not been invoked successfully.
C6_Original ==
    BetweenDispatches =>
       \A r \in created : r \in DOMAIN store <=> invoked[r] = 0

\* C6, amended: a created record whose remote operation has not been invoked
\* successfully is in the store (a record absent from the store has been
\* invoked successfully).  The converse does not hold: a record whose delete
\* or commit failed after a successful invocation is still in the store.
C6_AbsentOnlyIfInvoked ==
    \A r \in created : invoked[r] = 0 => r \in DOMAIN store

\* C6 witness: between dispatches, one record is gone after its invocation
\* and another is stored after its invocation.
C6_Witness ==
    /\ BetweenDispatches
    /\ \E r \in created : r \notin DOMAIN store /\ invoked[r] > 0
    /\ \E r \in created : r \in DOMAIN store /\ invoked[r] > 0

C8_TransactionPerDispatch ==
    [][\A i \in live :
          /\ removed'[i] \cap DOMAIN store' = {}
          /\ (pc[i] = "except" => store' = store)
          /\ (pc'[i] = "invoke" => session'[i] = EmptySession)]_vars

\* C8 witness: a cycle ends in which the first dispatch committed its
\* removal and the second was rolled back.
C8_Witness ==
    \E i \in live :
       /\ pc[i] = "next_delay"
       /\ Len(attempted[i]) = 2
       /\ attempted[i][1] \in removed[i]
       /\ attempted[i][2] \in failed[i]
       /\ attempted[i][1] \notin DOMAIN store
       /\ attempted[i][2] \in DOMAIN store

\* C9: at most one call of _check_retry_tasks is in progress, none while
\* the timer sleeps, and the delay is computed when every entity of the
\* cycle has been through its dispatch.
C9_OneCycleAtATime ==
    \A i \in live :
       /\ active[i] <= 1
       /\ (pc[i] \in Waiting => active[i] = 0)
       /\ (pc[i] = "next_delay" =>
             /\ idx[i] = Len(entities[i]) + 1
             /\ Len(attempted[i]) = Len(entities[i])
             /\ AllAttempted(i))

\* C9 witness: the second cycle of an instance is about to compute its delay
\* after two dispatches.
C9_Witness ==
    \E i \in live :
       /\ pc[i] = "next_delay"
       /\ cycles[i] = 2
       /\ Len(attempted[i]) = 2

\* What holds of C3, C4 and C10 in the code: the only exceptions that end a
\* cycle are those of rollback() and clear(), and a cycle that is not ended
\* by one of them attempts every fetched record before it computes its delay.
FailureContainedUnlessHandlerRaises ==
    \A i \in live :
       /\ (pc[i] = "crashed" => raising[i] \in {"rollback", "clear"})
       /\ (pc[i] = "next_delay" => AllAttempted(i))

\* C10, as stated: a cycle during which stop was requested does not end by
\* an exception, and ends with every fetched record attempted.
C10_StopLetsCycleComplete ==
    \A i \in live :
       stopreq[i] = "in_cycle" =>
          /\ pc[i] # "crashed"
          /\ (pc[i] = "next_delay" => AllAttempted(i))

\* C11: once stop() has been called on an instance, no step starts a check
\* cycle of that instance: its count of started cycles stays, and its loop
\* does not come to the fetch.
C11_NoCycleAfterStop ==
    [][\A i \in live :
          stopreq[i] # "none" =>
             /\ cycles'[i] = cycles[i]
             /\ (pc'[i] = "fetch" => pc[i] = "fetch")]_vars

\* C11 witness: stop came while the timer slept after a cycle, and the loop
\* has ended where it would have started the next cycle.
C11_Witness ==
    \E i \in live :
       /\ stopreq[i] = "waiting"
       /\ pc[i] = "exited"
       /\ cycles[i] = 1

\* The dispatch of instance i failed at its delete, and the record it was
\* dispatching was gone from the store: another instance had removed it.
LostRace(i) ==
    /\ DispatchFailed(i)
    /\ caught[i] = "delete"
    /\ gone[i]

\* C12, as stated: when an instance has lost the race for a record, the
\* record is absent, the failure was logged once the except clause is over,
\* and the instance has not ended by an exception.
C12_RaceIsOrdinaryFailure ==
    \A i \in live :
       LostRace(i) =>
          /\ task[i].id \notin DOMAIN store
          /\ (pc[i] # "except" => logged[i] = <<MessageOf(task[i])>>)
          /\ pc[i] # "crashed"

\* C13, as stated: a record whose dispatch failed in an earlier cycle (its
\* remote operation was invoked, its removal did not commit) and that a
\* later cycle fetches is attempted by the time that cycle ends.
C13_FailedRecordAttemptedAgain ==
    \A i \in live :
       pc[i] \in {"next_delay", "crashed"} =>
          \A k \in 1..Len(entities[i]) :
             invoked[entities[i][k].id] >= 1 =>
                entities[i][k].id \in Range(attempted[i])

\* C14, as stated: while stop has not been requested the timer's loop is
\* alive, in a cycle or armed for the next one: it has not ended.
C14_LoopAliveUntilStop ==
    \A i \in live : stopreq[i] = "none" => pc[i] \notin Ended

\* A delay d, in tenths of a second, lies in [0.8 * B, 1.2 * B] seconds.
WithinJitter(d, B) == 8 * B <= d /\ d <= 12 * B

\* C15: under every configured base interval, every value of the interval
\* policy lies in [0.8 * interval, 1.2 * interval], and the value a check
\* cycle has returned is such a value.
C15_DelayWithinJitter ==
    /\ \A d \in ComputeNextPeriodicInterval(interval) :
          WithinJitter(d, interval)
    /\ \A i \in live : pc[i] = "sleep" => WithinJitter(delay[i], interval)

\* C15 witness: under a base interval other than the default, a cycle that
\* dispatched a record has returned the largest delay of the policy.
C15_Witness ==
    \E i \in live :
       /\ interval # PeriodicIntervalMaxSeconds
       /\ pc[i] = "sleep"
       /\ invoked[1] >= 1
       /\ delay[i] = 12 * interval

\* C16, as stated: the timer sleeps, between the end of a cycle and the
\* start of the next, exactly the delay that the cycle returned.
C16_WaitIsReturnedDelay ==
    \A i \in live : pc[i] = "sleep" => wait[i] = delay[i]

\* C17: the records a cycle iterates over have created_at <= now, the
\* records it dispatches and the records it removes are among them, and a
\* record with created_at > now is not dispatched by it.
C17_OnlyDueRecordsDispatched ==
    \A i \in live :
       /\ \A k \in 1..Len(entities[i]) : entities[i][k].created_at <= now
       /\ Range(attempted[i]) \subseteq SeqIds(entities[i])
       /\ removed[i] \subseteq SeqIds(entities[i])
       /\ \A r \in DOMAIN store :
             store[r].created_at > now => r \notin Range(attempted[i])

\* C17 witness: a cycle has dispatched and removed a due record and is
\* over, and a record that is not due yet is in the store.
C17_Witness ==
    \E i \in live :
       /\ pc[i] = "next_delay"
       /\ attempted[i] # <<>>
       /\ removed[i] # {}
       /\ \E r \in DOMAIN store : store[r].created_at > now

\* C18: a cycle whose fetch met a storage error that the store suppressed
\* has zero records and total 0, makes no call and dispatches nothing,
\* removes nothing, and is in its for loop or past it, about to return its
\* delay: it has not ended by an exception.
C18_SuppressedFetchIsEmptyCycle ==
    \A i \in live :
       suppressed[i] =>
          /\ entities[i] = <<>>
          /\ total[i] = 0
          /\ calls[i] = <<>>
          /\ attempted[i] = <<>>
          /\ removed[i] = {}
          /\ pc[i] \in {"loop", "next_delay"}

\* C18 witness: records are due, the fetch met the storage error, and the
\* cycle is about to return its delay.
C18_Witness ==
    \E i \in live :
       /\ suppressed[i]
       /\ DueIds(store, now) = DOMAIN store
       /\ DOMAIN store = created
       /\ pc[i] = "next_delay"

\* The first cycle of instance i has ended normally after a fetch that met
\* no storage error.
FirstCycleDone(i) ==
    /\ pc[i] = "next_delay"
    /\ cycles[i] = 1
    /\ ~suppressed[i]

\* No record stays in the store after its remote operation was invoked:
\* no delete and no commit has failed.
StoreOperationsSucceeded == \A r \in DOMAIN store : invoked[r] = 0

\* C19, as stated: after one cycle in which the store operations succeeded
\* there was one attempt for each of the n due records, and the due records
\* left in the store are exactly those whose dispatch failed at the queue
\* client.
C19_OneCycleLeavesExactlyFailures ==
    \A i \in live :
       FirstCycleDone(i) /\ StoreOperationsSucceeded =>
          /\ Len(attempted[i]) = total[i]
          /\ Cardinality(Range(attempted[i])) = total[i]
          /\ DueIds(store, now) = failed[i]

\* C20, as stated: a cycle that ends normally after a fetch that met no
\* storage error has attempted every record that was due at its start.
C20_EveryDueRecordAttempted ==
    \A i \in live :
       pc[i] = "next_delay" /\ ~suppressed[i] =>
          /\ Len(attempted[i]) = total[i]
          /\ DueIds(store, now) \subseteq Range(attempted[i])

\* What holds of C19 and C20 in the code: a cycle attempts the records of
\* the first page of the due set, one attempt each, and no other record.
FirstPageAttempted ==
    \A i \in live :
       pc[i] = "next_delay" /\ ~suppressed[i] =>
          /\ Len(attempted[i]) = Min(total[i], limit)
          /\ Cardinality(Range(attempted[i])) = Len(attempted[i])
          /\ attempted[i] = [k \in 1..Len(entities[i]) |-> entities[i][k].id]

\* C21, as stated: a check cycle has been started only on an instance on
\* which start() was invoked.
C21_NoCycleBeforeStart ==
    \A i \in live : cycles[i] >= 1 => life[i] = "started"

C22_CyclesInWindow ==
    \A i \in live :
       elapsed[i] < horizon =>
          /\ cycles[i] <= 3
          /\ (pc[i] \in Waiting /\ elapsed[i] + wait[i] >= horizon =>
                cycles[i] >= 2)

\* C22 witness: three cycles have started inside the window, and the timer
\* sleeps until after its end.
C22_Witness ==
    \E i \in live :
       /\ pc[i] = "sleep"
       /\ running[i]
       /\ cycles[i] = 3
       /\ elapsed[i] < horizon
       /\ elapsed[i] + wait[i] >= horizon

\* The calls of the current dispatch of instance i that are calls of op.
CallsOf(i, op) == {k \in 1..Len(calls[i]) : calls[i][k][1] = op}

\* The dispatch of instance i is in one of its steps.
InDispatch(i) == pc[i] \in {"invoke", "delete", "commit", "except", "finally"}

\* A dispatch of instance i is over: the for loop has it behind itself, or
\* its exception has ended the cycle.
DispatchOver(i) == (pc[i] = "loop" /\ idx[i] > 1) \/ pc[i] = "crashed"

\* C23: a dispatch that is over has called clear() once, as its last call;
\* a dispatch in progress has not called it yet.
C23_ClearOnceAndLast ==
    \A i \in live :
       /\ InDispatch(i) => CallsOf(i, "clear") = {}
       /\ DispatchOver(i) => CallsOf(i, "clear") = {Len(calls[i])}

\* C23 witness: rollback() has raised, and clear() was called after it.
C23_Witness ==
    \E i \in live :
       /\ pc[i] = "crashed"
       /\ Called(i, "rollback", FALSE)
       /\ Called(i, "clear", TRUE)

\* C24: delete is the call after the remote invocation that returned, with
\* the status set to ACTIVE by then and not before; commit is the call
\* after the delete that returned; and a dispatch that committed has made
\* exactly the calls invoke, delete, commit, clear, in this order.
C24_StepsInOrder ==
    \A i \in live :
       /\ \A k \in CallsOf(i, "delete") :
             k = 2 /\ calls[i][1] = <<"invoke", TRUE>>
       /\ \A k \in CallsOf(i, "commit") :
             k = 3 /\ calls[i][2] = <<"delete", TRUE>>
       /\ (pc[i] = "delete" => task[i].status = PENDING_RETRY)
       /\ (CallsOf(i, "delete") # {} => task[i].status = ACTIVE)
       /\ (DispatchOver(i) /\ Called(i, "commit", TRUE) =>
             /\ Len(calls[i]) = 4
             /\ calls[i][1] = <<"invoke", TRUE>>
             /\ calls[i][2] = <<"delete", TRUE>>
             /\ calls[i][3] = <<"commit", TRUE>>
             /\ calls[i][4][1] = "clear")

\* C24 witness: a dispatch has committed and cleared.
C24_Witness ==
    \E i \in live :
       /\ pc[i] = "loop"
       /\ idx[i] > 1
       /\ calls[i] = <<<<"invoke", TRUE>>, <<"delete", TRUE>>,
                       <<"commit", TRUE>>, <<"clear", TRUE>>>>
       /\ task[i].status = ACTIVE

\* The current dispatch of instance i is of a record whose retry_task is
\* no operation of the queue client, and is past the resolution of the name.
Unresolved(i) ==
    /\ task[i] # NoTask
    /\ task[i].retry_task \notin QueueMethods
    /\ pc[i] # "invoke"

\* C25: the dispatch of a record with an unresolvable name is in or past
\* its except clause; nothing was cast, delete and commit were not called,
\* the failure is logged, rollback() and then clear() are the only calls,
\* and the record is in the store as it was fetched.
C25_UnresolvableIsFailure ==
    \A i \in live :
       Unresolved(i) =>
          /\ pc[i] \in {"except", "finally", "loop", "crashed"}
          /\ caught[i] = "resolve"
          /\ sent[i] = NoMessage
          /\ invoked[task[i].id] = 0
          /\ CallsOf(i, "invoke") \cup CallsOf(i, "delete")
                \cup CallsOf(i, "commit") = {}
          /\ task[i].id \in DOMAIN store
          /\ store[task[i].id] = task[i]
          /\ task[i].status = PENDING_RETRY
          /\ (pc[i] = "except" => calls[i] = <<>>)
          /\ (pc[i] = "finally" =>
                Len(calls[i]) = 1 /\ calls[i][1][1] = "rollback")
          /\ (DispatchOver(i) =>
                /\ Len(calls[i]) = 2
                /\ calls[i][1][1] = "rollback"
                /\ calls[i][2][1] = "clear"
                /\ logged[i] = <<MessageOf(task[i])>>)

\* C25 witness: the dispatch of a record with an unresolvable name is over,
\* rolled back and cleared.
C25_Witness ==
    \E i \in live :
       /\ Unresolved(i)
       /\ pc[i] = "loop"
       /\ calls[i] = <<<<"rollback", TRUE>>, <<"clear", TRUE>>>>

\* C26: a dispatch whose try block failed and whose except clause is over
\* has written one entry, with the name, args and kwargs of its record, and
\* has called rollback() once, also when that rollback() raised; a dispatch
\* that met no failure has written no entry and has not called rollback().
C26_LogThenRollback ==
    \A i \in live :
       /\ (caught[i] \in TryFailures /\ pc[i] # "except" =>
             /\ logged[i] = <<MessageOf(task[i])>>
             /\ task[i].id \in DOMAIN store =>
                   logged[i] = <<MessageOf(store[task[i].id])>>
             /\ Cardinality(CallsOf(i, "rollback")) = 1)
       /\ (caught[i] \in TryFailures /\ pc[i] = "except" =>
             logged[i] = <<>> /\ CallsOf(i, "rollback") = {})
       /\ (caught[i] = "none" =>
             logged[i] = <<>> /\ CallsOf(i, "rollback") = {})

\* C26 witness: a commit has failed, the entry was written and the
\* rollback() that followed has raised.
C26_Witness ==
    \E i \in live :
       /\ caught[i] = "commit"
       /\ Called(i, "rollback", FALSE)
       /\ logged[i] = <<MessageOf(task[i])>>

\* The cycle of instance i goes through its entities in the order of the
\* fetch, oldest first: the records attempted so far are the first of
\* them, in that order, and the record in dispatch is the one at idx.
InFetchOrder(i) ==
    /\ \A a, b \in 1..Len(entities[i]) :
          a < b => entities[i][a].created_at <= entities[i][b].created_at
    /\ Len(attempted[i]) <= Len(entities[i])
    /\ \A k \in 1..Len(attempted[i]) : attempted[i][k] = entities[i][k].id
    /\ (InDispatch(i) =>
          /\ task[i].id = entities[i][idx[i]].id
          /\ Len(attempted[i]) = IF pc[i] = "invoke" THEN idx[i] - 1
                                                     ELSE idx[i])

\* A step that begins a dispatch of instance i is taken from the for loop,
\* after the clear() of the dispatch before it returned, on the entity that
\* follows the ones attempted so far.
BeginsAfterClear(i) ==
    pc[i] # "invoke" /\ pc'[i] = "invoke" =>
       /\ pc[i] = "loop"
       /\ task'[i] = entities[i][Len(attempted[i]) + 1]
       /\ Len(attempted[i]) >= 1 =>
             calls[i][Len(calls[i])] = <<"clear", TRUE>>

\* C27: within a cycle the records are dispatched in the order the store
\* returned them, oldest first, none skipped, and a dispatch begins only
\* after the clear() of the dispatch before it.
C27_SequentialInFetchOrder ==
    /\ [](\A i \in live : InFetchOrder(i))
    /\ [][\A i \in live : BeginsAfterClear(i)]_vars

\* C27 witness: the dispatch of the younger of two fetched records begins,
\* the older one having been attempted.
C27_Witness ==
    \E i \in live :
       /\ pc[i] = "invoke"
       /\ idx[i] = 2
       /\ Len(attempted[i]) = 1
       /\ entities[i][1].created_at < entities[i][2].created_at

\* The scheduling key and the task of two versions of a record are equal.
SameTask(a, b) ==
    /\ a.created_at = b.created_at
    /\ a.retry_task = b.retry_task
    /\ a.retry_args = b.retry_args
    /\ a.retry_kwargs = b.retry_kwargs

\* C28: no step changes created_at, retry_task, retry_args or retry_kwargs
\* of a record that stays in the store, or of the entity of such a record
\* that a dispatch holds in memory; no step adds a record; and a record
\* that is due and stays in the store is due after the step.
C28_TaskFieldsNeverChange ==
    [][/\ DOMAIN store' \subseteq DOMAIN store
       /\ \A r \in DOMAIN store' :
             /\ SameTask(store[r], store'[r])
             /\ store'[r].id = r
             /\ r \in DueIds(store, now) => r \in DueIds(store', now')
       /\ \A i \in live :
             task'[i] # NoTask /\ task'[i].id \in DOMAIN store' =>
                SameTask(task'[i], store'[task'[i].id])]_vars

\* C28 witness: a record whose dispatch failed in the first cycle, after
\* its remote operation was invoked, is fetched again by the second cycle.
C28_Witness ==
    \E i \in live :
       /\ cycles[i] = 2
       /\ pc[i] = "loop"
       /\ idx[i] = 1
       /\ entities[i] # <<>>
       /\ invoked[entities[i][1].id] = 1

\* C30, as stated, for the cycles of one run: when the last of them ends
\* normally after a fetch that met no storage error, a record that has been
\* due from the start, names an operation of the queue client and is still
\* in the store without a successful invocation has been attempted in that
\* cycle, and its dispatch failed.
C30_DueRecordNotStarved ==
    \A i \in live :
       pc[i] = "next_delay" /\ cycles[i] = MaxCycles /\ ~suppressed[i] =>
          \A r \in DOMAIN store :
             /\ store[r].created_at = 0
             /\ Resolvable(store[r].retry_task)
             /\ invoked[r] = 0
             => r \in failed[i]

\* C31, as stated: a dispatch in which rollback() or clear() raised is
\* contained like any other dispatch failure: its exception does not end
\* the cycle, which goes on with the for loop and comes to its delay with
\* every fetched record attempted.
C31_HandlerFailureContained ==
    \A i \in live :
       Called(i, "rollback", FALSE) \/ Called(i, "clear", FALSE) =>
          /\ pc[i] # "crashed"
          /\ (pc[i] = "next_delay" => AllAttempted(i))

\* C32: with one instance on a store whose delete, commit, rollback and
\* clear always return, no record's remote operation is invoked
\* successfully more than once; a record that was invoked successfully is
\* gone from the store once its dispatch is over, no fetch returns it, and
\* no dispatch of it begins.
C32_InvokedAtMostOnce ==
    /\ [](/\ \A r \in RecordIds : invoked[r] <= 1
          /\ \A r \in DOMAIN store :
                invoked[r] = 1 =>
                   \E i \in live :
                      task[i].id = r /\ pc[i] \in {"delete", "commit"})
    /\ [][\A i \in live : \A r \in RecordIds :
             invoked[r] = 1 =>
                /\ (pc[i] = "fetch" => r \notin SeqIds(entities'[i]))
                /\ (pc[i] = "loop" /\ pc'[i] = "invoke" => task'[i].id # r)]_vars

\* C32 witness: the second cycle has fetched the record whose remote call
\* raised in the first cycle, after the other record was invoked and removed.
C32_Witness ==
    \E i \in live :
       /\ cycles[i] = 2
       /\ pc[i] = "loop"
       /\ idx[i] = 1
       /\ Len(entities[i]) = 1
       /\ \E r \in created : invoked[r] = 1 /\ r \notin DOMAIN store
       /\ invoked[entities[i][1].id] = 0

\* C33: every record in the committed store has status PENDING_RETRY; the
\* status ACTIVE is uncommitted work of the session of the dispatch that
\* set it, on that dispatch's record only, and when the commit is called
\* that record is marked deleted in the same session.
C33_ActiveNeverPersisted ==
    /\ \A r \in DOMAIN store : store[r].status = PENDING_RETRY
    /\ \A i \in live :
          /\ session[i].dirty \subseteq {task[i].id}
          /\ (pc[i] = "commit" => session[i].dirty \subseteq session[i].deleted)
          /\ (pc[i] \in {"loop", "invoke"} => session[i] = EmptySession)

\* C33 witness: a delete raised after the entity was marked ACTIVE; the
\* dispatch was rolled back and cleared, and its record is in the store.
C33_Witness ==
    \E i \in live :
       /\ pc[i] = "loop"
       /\ caught[i] = "delete"
       /\ task[i].status = ACTIVE
       /\ task[i].id \in DOMAIN store
       /\ store[task[i].id].status = PENDING_RETRY

\* C34: a dispatch that is over has ended its transaction in one way: its
\* commit() returned and rollback() was not called, or rollback() was called,
\* once, and no commit() of the dispatch returned, so that its record is in
\* the store; commit() is called at most once, and no call of rollback()
\* comes after a commit() that returned.
C34_CommitXorRollback ==
    \A i \in live :
       /\ Cardinality(CallsOf(i, "commit")) <= 1
       /\ Cardinality(CallsOf(i, "rollback")) <= 1
       /\ ~(Called(i, "commit", TRUE) /\ CallsOf(i, "rollback") # {})
       /\ (CallsOf(i, "rollback") # {} => task[i].id \notin removed[i])
       /\ (pc[i] = "finally" \/ DispatchOver(i) =>
             (Called(i, "commit", TRUE) <=> CallsOf(i, "rollback") = {}))

\* C34 witness: a cycle in which one dispatch committed and the next one,
\* whose commit raised, was rolled back.
C34_Witness ==
    \E i \in live :
       /\ pc[i] = "loop"
       /\ idx[i] = 3
       /\ attempted[i][1] \in removed[i]
       /\ calls[i] = <<<<"invoke", TRUE>>, <<"delete", TRUE>>,
                       <<"commit", FALSE>>, <<"rollback", TRUE>>,
                       <<"clear", TRUE>>>>

\* The current cycle of instance i has fetched, and the fetch reported
\* total 0: nothing was due, or a storage error was suppressed.
EmptyFetch(i) ==
    /\ pc[i] \in {"loop", "next_delay"}
    /\ total[i] = 0

\* C35: a cycle whose fetch reported total 0 iterates over nothing, makes
\* no remote call and no delete, commit, rollback or clear, and its next
\* step is the computation of the delay; from the fetch to the return of
\* the delay it leaves the store, the sessions and the count of
\* invocations as they were, and the delay it returns is in
\* [0.8 * interval, 1.2 * interval].
C35_EmptyFetchDoesNothing ==
    /\ [](\A i \in live :
             EmptyFetch(i) =>
                /\ entities[i] = <<>>
                /\ attempted[i] = <<>>
                /\ calls[i] = <<>>
                /\ sent[i] = NoMessage
                /\ failed[i] = {} /\ removed[i] = {}
                /\ session[i] = EmptySession)
    /\ [][\A i \in live :
             EmptyFetch(i) /\ pc'[i] # pc[i] =>
                /\ pc'[i] \in {"next_delay", "sleep"}
                /\ store' = store
                /\ invoked' = invoked
                /\ calls'[i] = <<>>
                /\ session'[i] = EmptySession
                /\ (pc'[i] = "sleep" =>
                      WithinJitter(delay'[i], interval))]_vars

\* C35 witness: a cycle whose fetch met no storage error and found no due
\* record, in a store that holds records, has returned its delay.
C35_Witness ==
    \E i \in live :
       /\ pc[i] = "sleep"
       /\ cycles[i] = 1
       /\ WithinJitter(delay[i], interval)
       /\ DOMAIN store = created
       /\ \A r \in created : invoked[r] = 0 /\ store[r].created_at > 0

====
